---- MODULE Spec2Model ----
(***************************************************************************)
(* A model of brainfuck2c.c: main() reads a Brainfuck source, lex() turns  *)
(* it into tokens, parseLevel() builds the AST with run-length merging and *)
(* recursive loops, generate_code() prints the C program.                  *)
(*                                                                         *)
(* C arrays are modelled as sequences; C indices (i, index, pos) stay      *)
(* 0-based as in the code, so src[i] is source[i + 1].                     *)
(***************************************************************************)
EXTENDS Integers, Sequences, FiniteSets, TLC

(* ------------------------------------------------------------------ *)
(* Bounds of the model                                                  *)
(* ------------------------------------------------------------------ *)

\* Longest source file over the whole byte alphabet.
MaxSrcLen == 4

\* Longest source file over the small alphabet + . [ ] (deeper nesting).
MaxDeepLen == 6

\* Longest source file of the specifications that also run the emitted
\* program.
MaxExecLen == 4

\* Cells of the tape the model keeps (the cursor leaving them ends a run).
TapeWindow == 3

\* Most values a run reads from, and writes to, its streams.
MaxIn == 2

MaxOut == 3

(* ------------------------------------------------------------------ *)
(* Program constants                                                    *)
(* ------------------------------------------------------------------ *)

TAPE_SIZE == 30000

EXIT_FAILURE == 1

\* enum TokenType
TOKEN_PLUS == 0
TOKEN_MINUS == 1
TOKEN_NEXT == 2
TOKEN_PREVIOUS == 3
TOKEN_OUTPUT == 4
TOKEN_INPUT == 5
TOKEN_LOOP_START == 6
TOKEN_LOOP_END == 7

\* The byte values the model feeds in: the 8 instruction characters
\* + - > < . , [ ] and two bytes outside the instruction set, 'a' and NUL.
InstrBytes == {43, 45, 62, 60, 46, 44, 91, 93}

OtherBytes == {97, 0}

Bytes == InstrBytes \cup OtherBytes

\* + . [ ]
DeepBytes == {43, 46, 91, 93}

RECURSIVE SeqsUpTo(_, _)
SeqsUpTo(S, n) ==
    IF n = 0 THEN {<<>>}
    ELSE LET shorter == SeqsUpTo(S, n - 1)
         IN  shorter \cup {Append(s, x) : s \in {t \in shorter : Len(t) = n - 1}, x \in S}

\* The source files of the model: every byte string up to MaxSrcLen, and
\* every string of + . [ ] up to MaxDeepLen.
Sources == SeqsUpTo(Bytes, MaxSrcLen) \cup SeqsUpTo(DeepBytes, MaxDeepLen)

VARIABLES
    source,     \* main: the bytes fread() put into the buffer (before the '\0')
    pc,         \* main: the phase the process is in
    i,          \* lex: loop index
    tokens,     \* lex: the token array (count = Len(tokens))
    index,      \* parseTokens: the shared token index
    stack,      \* the active parseLevel calls, innermost last
    skipped,    \* parseLevel: number of times the catch-all else branch ran
    ast,        \* main: the root node array
    stdout,     \* the lines written to the normal output stream
    stderr,     \* the diagnostics written to the error stream
    exitCode,   \* the process's exit status, -1 while it runs
    input,      \* the values the executions have read so far, in order
    cm,         \* the execution of the emitted C program
    ref,        \* the instruction-by-instruction interpretation of the tokens
    turn        \* which of the two executions steps next

exec == <<input, cm, ref, turn>>

vars == <<source, pc, i, tokens, index, stack, skipped, ast, stdout, stderr, exitCode,
          exec>>

(* ------------------------------------------------------------------ *)
(* Lexer                                                                *)
(* ------------------------------------------------------------------ *)

\* src[k] of the NUL-terminated buffer main builds (source[fsize] = '\0').
SrcAt(src, k) == IF k < Len(src) THEN src[k + 1] ELSE 0

\* The switch of lex(): the token type of a character, -1 for `default`.
CharToToken(c) ==
    CASE c = 43 -> TOKEN_PLUS
      [] c = 45 -> TOKEN_MINUS
      [] c = 62 -> TOKEN_NEXT
      [] c = 60 -> TOKEN_PREVIOUS
      [] c = 46 -> TOKEN_OUTPUT
      [] c = 44 -> TOKEN_INPUT
      [] c = 91 -> TOKEN_LOOP_START
      [] c = 93 -> TOKEN_LOOP_END
      [] OTHER -> -1

\* The loop condition of lex(): src[i] != '\0'.
LexContinues(src, k) == SrcAt(src, k) # 0

\* The token lex() stores for the character at offset k.
MakeToken(t, k) == [type |-> t, pos |-> k]

\* One iteration of the for loop of lex().
LexStep ==
    /\ pc = "lex"
    /\ LexContinues(source, i)
    /\ LET t == CharToToken(SrcAt(source, i))
       IN  tokens' = IF t = -1 THEN tokens ELSE Append(tokens, MakeToken(t, i))
    /\ i' = i + 1
    /\ UNCHANGED <<source, pc, index, stack, skipped, ast, stdout, stderr, exitCode, exec>>

\* lex() returns; main calls parseTokens(), which calls parseLevel(.., 0).
LexReturn ==
    /\ pc = "lex"
    /\ ~LexContinues(source, i)
    /\ pc' = "parse"
    /\ index' = 0
    /\ stack' = <<[nodes |-> <<>>, insideLoop |-> 0]>>
    /\ UNCHANGED <<source, i, tokens, skipped, ast, stdout, stderr, exitCode, exec>>

(* ------------------------------------------------------------------ *)
(* Parser                                                               *)
(* ------------------------------------------------------------------ *)

numTokens == Len(tokens)

\* tokens[k], 0-based.
Tok(k) == tokens[k + 1]

IsPrimitive(t) ==
    \/ t = TOKEN_PLUS \/ t = TOKEN_MINUS
    \/ t = TOKEN_NEXT \/ t = TOKEN_PREVIOUS
    \/ t = TOKEN_OUTPUT \/ t = TOKEN_INPUT

\* MergeRun merging a bounded prefix: at most two tokens.
MergeRunPair(toks, k, t) ==
    IF k + 1 < Len(toks) /\ toks[k + 2].type = t THEN 2 ELSE 1

\* MergeRun comparing with `is a primitive` instead of `is of type t`.
RECURSIVE MergeRunAnyKind(_, _, _)
MergeRunAnyKind(toks, k, t) ==
    IF k < Len(toks) /\ toks[k + 1].type \in 0..5
    THEN 1 + MergeRunAnyKind(toks, k + 1, t)
    ELSE 0

\* The merge loop: the number of tokens of type t from index k on.
RECURSIVE MergeRun(_, _, _)
MergeRun(toks, k, t) ==
    IF k < Len(toks) /\ toks[k + 1].type = t
    THEN 1 + MergeRun(toks, k + 1, t)
    ELSE 0

OpNode(t, repeat) == [type |-> t, count |-> repeat, children |-> <<>>]

\* LoopNode without `node.children = children`.
LoopNodeNoBody(children) == [type |-> TOKEN_LOOP_START, count |-> 0, children |-> <<>>]

LoopNode(children) == [type |-> TOKEN_LOOP_START, count |-> 0, children |-> children]

\* Fatal with printf in place of fprintf(stderr, ..).
FatalOnStdout(msg) ==
    /\ stdout' = Append(stdout, msg)
    /\ exitCode' = EXIT_FAILURE
    /\ pc' = "exit"
    /\ UNCHANGED stderr

\* exit(EXIT_FAILURE) after a diagnostic on stderr.
Fatal(msg) ==
    /\ stderr' = Append(stderr, msg)
    /\ exitCode' = EXIT_FAILURE
    /\ pc' = "exit"
    /\ UNCHANGED stdout

\* parseLevel returns nodes: to the LOOP_START branch of the calling
\* parseLevel, which wraps them in a loop node and appends it to its own
\* nodes, or (the outermost call) to parseTokens and main.
Return(nodes) ==
    IF Len(stack) > 1
    THEN /\ stack' = [SubSeq(stack, 1, Len(stack) - 1) EXCEPT
                        ![Len(stack) - 1].nodes = Append(@, LoopNode(nodes))]
         /\ UNCHANGED <<ast, pc>>
    ELSE /\ stack' = <<>>
         /\ ast' = nodes
         /\ pc' = "preamble"

\* UnmatchedClose without the insideLoop test.
UnmatchedCloseNever(frame) == FALSE

\* UnmatchedOpen without the insideLoop test.
UnmatchedOpenNever(frame) == FALSE

\* The test of the LOOP_END branch: is this ']' unmatched?
UnmatchedClose(frame) == frame.insideLoop = 0

\* The test after the while loop: did the tokens end inside a loop?
UnmatchedOpen(frame) == frame.insideLoop # 0

\* The position printed with the unmatched ']' diagnostic.
ClosePos(current) == current.pos

\* The frame of the parseLevel call made by the LOOP_START branch.
LoopFrame == [nodes |-> <<>>, insideLoop |-> 1]

\* One iteration of the while loop of the innermost parseLevel call.
ParseStep ==
    /\ pc = "parse"
    /\ index < numTokens
    /\ LET frame   == stack[Len(stack)]
           current == Tok(index)
       IN  IF current.type = TOKEN_LOOP_END
           THEN IF UnmatchedClose(frame)
                THEN /\ Fatal([fmt |-> "Error: Unmatched ']' at position %d",
                               args |-> <<ClosePos(current)>>])
                     /\ UNCHANGED <<index, stack, skipped, ast>>
                ELSE /\ index' = index + 1
                     /\ Return(frame.nodes)
                     /\ UNCHANGED <<skipped, stdout, stderr, exitCode>>
           ELSE IF current.type = TOKEN_LOOP_START
           THEN /\ index' = index + 1
                /\ stack' = Append(stack, LoopFrame)
                /\ UNCHANGED <<pc, skipped, ast, stdout, stderr, exitCode>>
           ELSE IF IsPrimitive(current.type)
           THEN LET repeat == MergeRun(tokens, index, current.type)
                IN  /\ index' = index + repeat
                    /\ stack' = [stack EXCEPT ![Len(stack)].nodes =
                                    Append(@, OpNode(current.type, repeat))]
                    /\ UNCHANGED <<pc, skipped, ast, stdout, stderr, exitCode>>
           ELSE /\ index' = index + 1
                /\ skipped' = skipped + 1
                /\ UNCHANGED <<pc, stack, ast, stdout, stderr, exitCode>>
    /\ UNCHANGED <<source, i, tokens, exec>>

\* The while loop of the innermost parseLevel call ends: index reached
\* numTokens.
ParseEnd ==
    /\ pc = "parse"
    /\ ~(index < numTokens)
    /\ LET frame == stack[Len(stack)]
       IN  IF UnmatchedOpen(frame)
           THEN /\ Fatal([fmt |-> "Error: Unmatched '[' detected", args |-> <<>>])
                /\ UNCHANGED <<stack, ast>>
           ELSE /\ Return(frame.nodes)
                /\ UNCHANGED <<stdout, stderr, exitCode>>
    /\ UNCHANGED <<source, i, tokens, index, skipped, exec>>

(* ------------------------------------------------------------------ *)
(* Generator                                                            *)
(* ------------------------------------------------------------------ *)

\* One printf of a line: print_indent(level) followed by the format and
\* its arguments.
Line(level, fmt, args) == [indent |-> level, fmt |-> fmt, args |-> args]

\* Repeated printing the statement count times instead of a loop.
RepeatedUnrolled(level, count, stmt) == [k \in 1..count |-> [indent |-> level, fmt |-> stmt, args |-> <<>>]]

\* Repeated with a loop bound that is one short.
RepeatedOffByOne(level, count, stmt) ==
    IF count = 1
    THEN <<[indent |-> level, fmt |-> stmt, args |-> <<>>]>>
    ELSE <<[indent |-> level, fmt |-> "for (int i = 0; i < %d; i++) {", args |-> <<count - 1>>],
           [indent |-> level + 1, fmt |-> stmt, args |-> <<>>],
           [indent |-> level, fmt |-> "}", args |-> <<>>]>>

\* putchar / getchar, once or in a counted for loop.
Repeated(level, count, stmt) ==
    IF count = 1
    THEN <<Line(level, stmt, <<>>)>>
    ELSE <<Line(level, "for (int i = 0; i < %d; i++) {", <<count>>),
           Line(level + 1, stmt, <<>>),
           Line(level, "}", <<>>)>>

RECURSIVE generate_code(_, _)
RECURSIVE GenNode(_, _)
\* The switch of generate_code() on one node.
GenNode(node, level) ==
    CASE node.type = TOKEN_PLUS     -> <<Line(level, "*ptr += %d;", <<node.count>>)>>
      [] node.type = TOKEN_MINUS    -> <<Line(level, "*ptr -= %d;", <<node.count>>)>>
      [] node.type = TOKEN_NEXT     -> <<Line(level, "ptr += %d;", <<node.count>>)>>
      [] node.type = TOKEN_PREVIOUS -> <<Line(level, "ptr -= %d;", <<node.count>>)>>
      [] node.type = TOKEN_OUTPUT   -> Repeated(level, node.count, "putchar(*ptr);")
      [] node.type = TOKEN_INPUT    -> Repeated(level, node.count, "*ptr = getchar();")
      [] node.type = TOKEN_LOOP_START ->
            <<Line(level, "while (*ptr) {", <<>>)>>
            \o generate_code(node.children, level + 1)
            \o <<Line(level, "}", <<>>)>>
      [] OTHER -> <<>>

\* generate_code(): the lines printed for a node array.
generate_code(nodes, level) ==
    IF nodes = <<>> THEN <<>>
    ELSE GenNode(Head(nodes), level) \o generate_code(Tail(nodes), level)

\* The printf calls of main before generate_code().
Preamble ==
    <<Line(0, "#include <stdio.h>", <<>>),
      Line(0, "#include <stdlib.h>", <<>>),
      Line(0, "", <<>>),
      Line(0, "#define TAPE_SIZE %d", <<TAPE_SIZE>>),
      Line(0, "", <<>>),
      Line(0, "int main(void) {", <<>>),
      Line(1, "unsigned char array[TAPE_SIZE] = {0};", <<>>),
      Line(1, "unsigned char *ptr = array;", <<>>),
      Line(0, "", <<>>)>>

\* The printf calls of main after generate_code().
Closing ==
    <<Line(0, "", <<>>),
      Line(1, "return 0;", <<>>),
      Line(0, "}", <<>>)>>

EmitPreamble ==
    /\ pc = "preamble"
    /\ stdout' = stdout \o Preamble
    /\ pc' = "body"
    /\ UNCHANGED <<source, i, tokens, index, stack, skipped, ast, stderr, exitCode, exec>>

EmitBody ==
    /\ pc = "body"
    /\ stdout' = stdout \o generate_code(ast, 1)
    /\ pc' = "closing"
    /\ UNCHANGED <<source, i, tokens, index, stack, skipped, ast, stderr, exitCode, exec>>

\* The closing lines, then return 0 from main.
EmitClosing ==
    /\ pc = "closing"
    /\ stdout' = stdout \o Closing
    /\ exitCode' = 0
    /\ pc' = "exit"
    /\ UNCHANGED <<source, i, tokens, index, stack, skipped, ast, stderr, exec>>

(* ------------------------------------------------------------------ *)
(* The emitted program, executed                                        *)
(* ------------------------------------------------------------------ *)

\* The statements main prints between its preamble and closing lines.
Body == SubSeq(stdout, Len(Preamble) + 1, Len(stdout) - Len(Closing))

\* The cells of `unsigned char array[TAPE_SIZE]` the model keeps.
TapeCells == IF TapeWindow < TAPE_SIZE THEN TapeWindow ELSE TAPE_SIZE

\* `unsigned char array[TAPE_SIZE] = {0}`.
ZeroTape == [c \in 0..(TapeCells - 1) |-> 0]

\* Conversion of an int to unsigned char.
ToByte(x) == ((x % 256) + 256) % 256

Opens(line) == line.fmt \in {"while (*ptr) {", "for (int i = 0; i < %d; i++) {"}

\* The number of blocks open after line k.
BraceDepth(lines, k) ==
    Cardinality({j \in 1..k : Opens(lines[j])})
    - Cardinality({j \in 1..k : lines[j].fmt = "}"})

Min(S) == CHOOSE x \in S : \A y \in S : x <= y

Max(S) == CHOOSE x \in S : \A y \in S : y <= x

\* The "}" that closes the block opened at line k.
CloserOf(lines, k) ==
    Min({j \in (k + 1)..Len(lines) : BraceDepth(lines, j) = BraceDepth(lines, k - 1)})

\* The line that opens the block closed at line j.
OpenerOf(lines, j) ==
    Max({k \in 1..(j - 1) : Opens(lines[k]) /\ BraceDepth(lines, k - 1) = BraceDepth(lines, j)})

\* Moving ptr by d: inside the array, or out of it (undefined behaviour,
\* after which nothing is known about the run).
MovePtr(m, d) ==
    IF m.cur + d \in 0..(TapeCells - 1)
    THEN [m EXCEPT !.cur = m.cur + d, !.pc = @ + 1]
    ELSE [m EXCEPT !.st = "out"]

\* putchar(*ptr), while the model still records output.
PutChar(m) ==
    IF Len(m.out) < MaxOut
    THEN [m EXCEPT !.out = Append(@, m.tape[m.cur]), !.pc = @ + 1]
    ELSE [m EXCEPT !.st = "stop"]

\* *ptr = v, for the value v that getchar() returned.
StoreChar(m, v) ==
    [m EXCEPT !.tape[m.cur] = ToByte(v), !.nin = @ + 1, !.pc = @ + 1]

\* The statement at line m.pc of the emitted body, other than a read.
CExec(lines, m) ==
    LET line == lines[m.pc]
        n == IF line.args = <<>> THEN 0 ELSE line.args[1]
    IN  CASE line.fmt = "*ptr += %d;" ->
                [m EXCEPT !.tape[m.cur] = ToByte(@ + n), !.pc = @ + 1]
          [] line.fmt = "*ptr -= %d;" ->
                [m EXCEPT !.tape[m.cur] = ToByte(@ - n), !.pc = @ + 1]
          [] line.fmt = "ptr += %d;" -> MovePtr(m, n)
          [] line.fmt = "ptr -= %d;" -> MovePtr(m, -n)
          [] line.fmt = "putchar(*ptr);" -> PutChar(m)
          [] line.fmt = "for (int i = 0; i < %d; i++) {" ->
                IF 0 < n
                THEN [m EXCEPT !.i = 0, !.pc = @ + 1]
                ELSE [m EXCEPT !.i = 0, !.pc = CloserOf(lines, m.pc) + 1]
          [] line.fmt = "while (*ptr) {" ->
                IF m.tape[m.cur] # 0
                THEN [m EXCEPT !.pc = @ + 1]
                ELSE [m EXCEPT !.pc = CloserOf(lines, m.pc) + 1]
          [] line.fmt = "}" ->
                LET o == OpenerOf(lines, m.pc)
                IN  IF lines[o].fmt = "while (*ptr) {"
                    THEN [m EXCEPT !.pc = o]
                    ELSE IF m.i + 1 < lines[o].args[1]
                         THEN [m EXCEPT !.i = @ + 1, !.pc = o + 1]
                         ELSE [m EXCEPT !.i = @ + 1, !.pc = @ + 1]

\* Reaching `return 0`.
Finish(m, len) == IF m.st = "run" /\ m.pc > len THEN [m EXCEPT !.st = "done"] ELSE m

\* The values an execution may read.
InBytes == {0, 1, 255}

\* The emitted program is compiled and started; the interpretation of the
\* same tokens starts beside it.
StartRun ==
    /\ pc = "exit"
    /\ exitCode = 0
    /\ cm.st = "off"
    /\ cm' = Finish([cm EXCEPT !.st = "run"], Len(Body))
    /\ ref' = Finish([ref EXCEPT !.st = "run"], numTokens)
    /\ UNCHANGED <<source, pc, i, tokens, index, stack, skipped, ast, stdout, stderr,
                   exitCode, input, turn>>

\* One statement of the emitted program.
CStep ==
    /\ cm.st = "run"
    /\ turn = "c" \/ ref.st # "run"
    /\ turn' = "ref"
    /\ IF Body[cm.pc].fmt = "*ptr = getchar();"
       THEN \/ /\ cm.nin < Len(input)
               /\ cm' = Finish(StoreChar(cm, input[cm.nin + 1]), Len(Body))
               /\ UNCHANGED input
            \/ /\ cm.nin = Len(input)
               /\ Len(input) < MaxIn
               /\ \E v \in InBytes :
                     /\ input' = Append(input, v)
                     /\ cm' = Finish(StoreChar(cm, v), Len(Body))
            \/ /\ cm.nin = Len(input)
               /\ Len(input) >= MaxIn
               /\ cm' = [cm EXCEPT !.st = "stop"]
               /\ UNCHANGED input
       ELSE /\ cm' = Finish(CExec(Body, cm), Len(Body))
            /\ UNCHANGED input
    /\ UNCHANGED <<source, pc, i, tokens, index, stack, skipped, ast, stdout, stderr,
                   exitCode, ref>>

(* ------------------------------------------------------------------ *)
(* The source program, interpreted one instruction at a time            *)
(* ------------------------------------------------------------------ *)

TokenKinds == [k \in 1..Len(tokens) |-> tokens[k].type]

\* Number of '[' minus number of ']' among the first k kinds.
OpenAfter(kinds, k) ==
    Cardinality({j \in 1..k : kinds[j] = TOKEN_LOOP_START})
    - Cardinality({j \in 1..k : kinds[j] = TOKEN_LOOP_END})

MatchingClose(kinds, k) ==
    Min({j \in (k + 1)..Len(kinds) : OpenAfter(kinds, j) = OpenAfter(kinds, k - 1)})

MatchingOpen(kinds, j) ==
    Max({k \in 1..(j - 1) : kinds[k] = TOKEN_LOOP_START
                             /\ OpenAfter(kinds, k - 1) = OpenAfter(kinds, j)})

\* One instruction other than a read: cells are bytes that wrap, moving
\* off the tape ends the run, '[' skips its loop on a zero cell and ']'
\* goes back into it on a non-zero cell.
RefExec(kinds, m) ==
    LET k == kinds[m.pc]
    IN  CASE k = TOKEN_PLUS -> [m EXCEPT !.tape[m.cur] = (@ + 1) % 256, !.pc = @ + 1]
          [] k = TOKEN_MINUS -> [m EXCEPT !.tape[m.cur] = (@ + 255) % 256, !.pc = @ + 1]
          [] k = TOKEN_NEXT ->
                IF m.cur + 1 < TapeCells
                THEN [m EXCEPT !.cur = @ + 1, !.pc = @ + 1]
                ELSE [m EXCEPT !.st = "out"]
          [] k = TOKEN_PREVIOUS ->
                IF m.cur > 0
                THEN [m EXCEPT !.cur = @ - 1, !.pc = @ + 1]
                ELSE [m EXCEPT !.st = "out"]
          [] k = TOKEN_OUTPUT ->
                IF Len(m.out) < MaxOut
                THEN [m EXCEPT !.out = Append(@, m.tape[m.cur]), !.pc = @ + 1]
                ELSE [m EXCEPT !.st = "stop"]
          [] k = TOKEN_LOOP_START ->
                IF m.tape[m.cur] = 0
                THEN [m EXCEPT !.pc = MatchingClose(kinds, m.pc) + 1]
                ELSE [m EXCEPT !.pc = @ + 1]
          [] k = TOKEN_LOOP_END ->
                IF m.tape[m.cur] # 0
                THEN [m EXCEPT !.pc = MatchingOpen(kinds, m.pc) + 1]
                ELSE [m EXCEPT !.pc = @ + 1]

RefStore(m, v) == [m EXCEPT !.tape[m.cur] = v, !.nin = @ + 1, !.pc = @ + 1]

\* One instruction of the token sequence.
RefStep ==
    /\ ref.st = "run"
    /\ turn = "ref" \/ cm.st # "run"
    /\ turn' = "c"
    /\ IF TokenKinds[ref.pc] = TOKEN_INPUT
       THEN \/ /\ ref.nin < Len(input)
               /\ ref' = Finish(RefStore(ref, input[ref.nin + 1]), numTokens)
               /\ UNCHANGED input
            \/ /\ ref.nin = Len(input)
               /\ Len(input) < MaxIn
               /\ \E v \in InBytes :
                     /\ input' = Append(input, v)
                     /\ ref' = Finish(RefStore(ref, v), numTokens)
            \/ /\ ref.nin = Len(input)
               /\ Len(input) >= MaxIn
               /\ ref' = [ref EXCEPT !.st = "stop"]
               /\ UNCHANGED input
       ELSE /\ ref' = Finish(RefExec(TokenKinds, ref), numTokens)
            /\ UNCHANGED input
    /\ UNCHANGED <<source, pc, i, tokens, index, stack, skipped, ast, stdout, stderr,
                   exitCode, cm>>

(* ------------------------------------------------------------------ *)
(* Specifications                                                       *)
(* ------------------------------------------------------------------ *)

\* Before main starts; neither execution has started.
Start ==
    /\ pc = "lex"
    /\ i = 0
    /\ tokens = <<>>
    /\ index = 0
    /\ stack = <<>>
    /\ skipped = 0
    /\ ast = <<>>
    /\ stdout = <<>>
    /\ stderr = <<>>
    /\ exitCode = -1
    /\ input = <<>>
    /\ cm = [pc |-> 1, tape |-> ZeroTape, cur |-> 0, out |-> <<>>, nin |-> 0,
             i |-> 0, st |-> "off"]
    /\ ref = [pc |-> 1, tape |-> ZeroTape, cur |-> 0, out |-> <<>>, nin |-> 0,
              st |-> "off"]
    /\ turn = "c"

Init == source \in Sources /\ Start

Next ==
    \/ LexStep
    \/ LexReturn
    \/ ParseStep
    \/ ParseEnd
    \/ EmitPreamble
    \/ EmitBody
    \/ EmitClosing

\* The transpiler run on every source of the model.
Spec == Init /\ [][Next]_vars

\* Longer programs: ",[.-]", "++[>+++<-]>.", "+[[-]]", ",>,<[->+<]>.",
\* "+++[>,..<-]".
SamplePrograms ==
    { <<44, 91, 46, 45, 93>>,
      <<43, 43, 91, 62, 43, 43, 43, 60, 45, 93, 62, 46>>,
      <<43, 91, 91, 45, 93, 93>>,
      <<44, 62, 44, 60, 91, 45, 62, 43, 60, 93, 62, 46>>,
      <<43, 43, 43, 91, 62, 44, 46, 46, 60, 45, 93>> }

\* Every string of instruction characters up to MaxExecLen, and the
\* longer programs.
ExecSources == SeqsUpTo(InstrBytes, MaxExecLen) \cup SamplePrograms

InitExec == source \in ExecSources /\ Start

NextExec == Next \/ StartRun \/ CStep \/ RefStep

\* The transpiler run on every instruction string, then the emitted
\* program and the interpretation of the tokens run side by side.
SpecExec == InitExec /\ [][NextExec]_vars

\* A process that can take a step takes it: the transpiler runs on, and
\* so does each of the two executions.
SpecFair == Spec /\ WF_vars(Next)

SpecExecFair == SpecExec /\ WF_vars(Next) /\ WF_vars(StartRun) /\ WF_vars(CStep) /\ WF_vars(RefStep)

(* ------------------------------------------------------------------ *)
(* Vocabulary of the properties                                         *)
(* ------------------------------------------------------------------ *)

\* The instruction kind each instruction character stands for.
KindOf ==
    (43 :> TOKEN_PLUS) @@ (45 :> TOKEN_MINUS) @@ (62 :> TOKEN_NEXT) @@
    (60 :> TOKEN_PREVIOUS) @@ (46 :> TOKEN_OUTPUT) @@ (44 :> TOKEN_INPUT) @@
    (91 :> TOKEN_LOOP_START) @@ (93 :> TOKEN_LOOP_END)

\* The kinds of the instruction characters of a byte string, in order.
RECURSIVE InstrKinds(_)
InstrKinds(src) ==
    IF src = <<>> THEN <<>>
    ELSE IF Head(src) \in DOMAIN KindOf
         THEN <<KindOf[Head(src)]>> \o InstrKinds(Tail(src))
         ELSE InstrKinds(Tail(src))

\* Some prefix holds more ']' than '['.
ClosesTooMany(kinds) == \E k \in 1..Len(kinds) : OpenAfter(kinds, k) < 0

\* The 1-based place of the first ']' with no unmatched '[' before it.
FirstUnmatchedClose(kinds) ==
    CHOOSE k \in 1..Len(kinds) :
        /\ OpenAfter(kinds, k) < 0
        /\ \A j \in 1..(k - 1) : OpenAfter(kinds, j) >= 0

MoreOpens(kinds) == OpenAfter(kinds, Len(kinds)) > 0

Balanced(kinds) == ~ClosesTooMany(kinds) /\ OpenAfter(kinds, Len(kinds)) = 0

BracketDepth(kinds) == Max({0} \cup {OpenAfter(kinds, k) : k \in 1..Len(kinds)})

RECURSIVE TreeDepth(_)
TreeDepth(nodes) ==
    Max({0} \cup {1 + TreeDepth(nodes[k].children) :
                    k \in {j \in 1..Len(nodes) : nodes[j].type = TOKEN_LOOP_START}})

\* The tokens a node sequence stands for, depth first and in order.
RECURSIVE Flatten(_)
Flatten(nodes) ==
    IF nodes = <<>> THEN <<>>
    ELSE LET n == Head(nodes)
         IN  (IF n.type = TOKEN_LOOP_START
              THEN <<TOKEN_LOOP_START>> \o Flatten(n.children) \o <<TOKEN_LOOP_END>>
              ELSE [k \in 1..n.count |-> n.type])
             \o Flatten(Tail(nodes))

\* Every node of the tree with the 0-based token index it starts at.
RECURSIVE Placed(_, _)
Placed(nodes, start) ==
    IF nodes = <<>> THEN {}
    ELSE LET n == Head(nodes)
             size == Len(Flatten(<<n>>))
         IN  {[node |-> n, start |-> start]}
             \cup (IF n.type = TOKEN_LOOP_START
                   THEN Placed(n.children, start + 1) ELSE {})
             \cup Placed(Tail(nodes), start + size)

\* Every node sequence of the tree: the root level and every loop body.
RECURSIVE Levels(_)
Levels(nodes) ==
    {nodes} \cup UNION {Levels(nodes[k].children) :
                          k \in {j \in 1..Len(nodes) : nodes[j].type = TOKEN_LOOP_START}}

CloseError(pos) == [fmt |-> "Error: Unmatched ']' at position %d", args |-> <<pos>>]

OpenError == [fmt |-> "Error: Unmatched '[' detected", args |-> <<>>]

\* The parse is over and succeeded: main holds the tree.
Parsed == pc \in {"preamble", "body", "closing"} \/ (pc = "exit" /\ exitCode = 0)

Failed == pc = "exit" /\ exitCode # 0

(* ------------------------------------------------------------------ *)
(* Properties                                                           *)
(* ------------------------------------------------------------------ *)

\* C1. Merging invariant: whenever parsing succeeds, no node sequence of
\* the tree (root or loop body, at any depth) holds two adjacent
\* repeated-op nodes of the same kind, and every repeated-op node has a
\* count >= 1 that is the length of the maximal run of same-kind tokens it
\* stands for: the tokens it covers are of its kind, the token before and
\* the token after (if any) are not.
MergingInvariant ==
    Parsed =>
        /\ \A level \in Levels(ast) : \A k \in 1..(Len(level) - 1) :
              (IsPrimitive(level[k].type) /\ IsPrimitive(level[k + 1].type))
                  => level[k].type # level[k + 1].type
        /\ \A p \in Placed(ast, 0) :
              IsPrimitive(p.node.type) =>
                  /\ p.node.count >= 1
                  /\ p.start + p.node.count <= numTokens
                  /\ \A k \in p.start..(p.start + p.node.count - 1) :
                        Tok(k).type = p.node.type
                  /\ p.start > 0 => Tok(p.start - 1).type # p.node.type
                  /\ p.start + p.node.count < numTokens
                        => Tok(p.start + p.node.count).type # p.node.type

\* Witness of C1: a tree with a merged run of 3 inside a loop next to a run
\* of another kind.
MergingWitness ==
    /\ Parsed
    /\ \E level \in Levels(ast) : \E k \in 1..(Len(level) - 1) :
          /\ level # ast
          /\ IsPrimitive(level[k].type) /\ IsPrimitive(level[k + 1].type)
          /\ level[k].count = 3

\* Every loop node of the tree with the 0-based index of its '[' token.
PlacedLoops == {p \in Placed(ast, 0) : p.node.type = TOKEN_LOOP_START}

SourceBrackets == [k \in 1..Len(source) |->
                     IF source[k] \in {91, 93} THEN KindOf[source[k]] ELSE -1]

\* C3 (as stated). Unmatched-close detection: every source that contains a
\* ']' with no unmatched '[' before it ends in the unmatched-close error,
\* and the position reported is the byte offset of the first such ']'.
UnmatchedCloseDetected ==
    (pc = "exit" /\ ClosesTooMany(SourceBrackets)) =>
        /\ exitCode # 0
        /\ stderr = <<CloseError(FirstUnmatchedClose(SourceBrackets) - 1)>>

\* The same for sources without a NUL byte.
UnmatchedCloseDetectedNulFree ==
    (\A k \in 1..Len(source) : source[k] # 0) => UnmatchedCloseDetected

\* A NUL-free source with a skipped byte before its unmatched ']' has been
\* rejected.
UnmatchedCloseWitness ==
    /\ pc = "exit"
    /\ \A k \in 1..Len(source) : source[k] # 0
    /\ ClosesTooMany(SourceBrackets)
    /\ \E k \in 1..Len(source) : source[k] = 97 /\ k < FirstUnmatchedClose(SourceBrackets)
    /\ stderr # <<>>

\* C4 (as stated). Unmatched-open detection: every input with more '['
\* than ']' tokens ends in the unmatched-open error.
UnmatchedOpenAlways ==
    (pc = "exit" /\ MoreOpens(TokenKinds)) => stderr = <<OpenError>>

\* C4 (amended). Every input with more '[' than ']' tokens ends in a
\* structural error with non-zero status and no output: the unmatched-open
\* error when no prefix of the tokens holds more ']' than '[', and the
\* unmatched-close error (at the first such ']') otherwise.
UnmatchedOpenDetected ==
    (pc = "exit" /\ MoreOpens(TokenKinds)) =>
        /\ exitCode = EXIT_FAILURE
        /\ stdout = <<>>
        /\ stderr = IF ClosesTooMany(TokenKinds)
                    THEN <<CloseError(tokens[FirstUnmatchedClose(TokenKinds)].pos)>>
                    ELSE <<OpenError>>

\* Witness of C4: an input with two loops still open at its end was
\* rejected with the unmatched-open error.
UnmatchedOpenWitness ==
    /\ pc = "exit"
    /\ MoreOpens(TokenKinds)
    /\ OpenAfter(TokenKinds, numTokens) = 2
    /\ \E k \in 1..numTokens : Tok(k - 1).type = TOKEN_LOOP_END
    /\ stderr = <<OpenError>>

\* C5 (as stated). Non-instruction transparency: the scanner never fails
\* and the token kinds are, in source order, exactly the instruction
\* characters of the whole source, so a source and the source with its
\* non-instruction bytes deleted (which has the same instruction
\* characters) scan to the same kinds.
ScanTransparent == pc # "lex" => TokenKinds = InstrKinds(source)

\* The same for sources without a NUL byte.
ScanTransparentNulFree ==
    (\A k \in 1..Len(source) : source[k] # 0) => ScanTransparent

\* A NUL-free source with skipped bytes between instructions was scanned.
ScanWitness ==
    /\ pc # "lex"
    /\ \A k \in 1..Len(source) : source[k] # 0
    /\ numTokens = 2
    /\ \E k \in 2..(Len(source) - 1) : source[k] = 97

\* C6. No partial output on error: a run that ends in a structural parse
\* error has written nothing to the output stream and ends with non-zero
\* status; nothing is written before the whole parse has succeeded; a
\* successful run has written preamble, body and closing lines, nothing
\* to the error stream, and ends with status zero.
NoPartialOutput ==
    /\ stderr # <<>> => (Failed /\ stdout = <<>>)
    /\ Failed => (stdout = <<>> /\ stderr \in {<<OpenError>>} \cup
                                     {<<CloseError(k)>> : k \in 0..Len(source)})
    /\ stdout # <<>> =>
          /\ Parsed
          /\ stack = <<>> /\ index = numTokens
          /\ ~ClosesTooMany(TokenKinds) /\ ~MoreOpens(TokenKinds)
    /\ pc = "exit" => exitCode \in {0, EXIT_FAILURE}
    /\ (pc = "exit" /\ exitCode = 0) =>
          /\ Len(stdout) >= Len(Preamble) + Len(Closing)
          /\ SubSeq(stdout, 1, Len(Preamble)) = Preamble
          /\ SubSeq(stdout, Len(stdout) - Len(Closing) + 1, Len(stdout)) = Closing
          /\ Len(Body) >= Len(ast)
          /\ \A k \in 1..Len(Body) : Body[k].indent >= 1

\* Witness of C6: a run whose tokens end inside a loop, after a complete
\* inner loop, has exited.
NoPartialOutputWitness ==
    /\ Failed
    /\ stderr = <<OpenError>>
    /\ \E k \in 1..numTokens : tokens[k].type = TOKEN_LOOP_END
    /\ stdout = <<>>

\* C9. Parse round trip: the parser's index never exceeds the number of
\* tokens, the catch-all branch is never taken, and when the parse has
\* succeeded every token has been consumed (index = number of tokens) and
\* flattening the tree depth first gives back the token kinds.
ParseRoundTrip ==
    /\ index <= numTokens
    /\ skipped = 0
    /\ Parsed => (index = numTokens /\ Flatten(ast) = TokenKinds)

\* Witness of C9: a tree with a loop in a loop and a merged run was built.
ParseRoundTripWitness ==
    /\ Parsed
    /\ TreeDepth(ast) = 2
    /\ \E p \in Placed(ast, 0) : IsPrimitive(p.node.type) /\ p.node.count = 2
    /\ numTokens = 6

\* C10. Outcome classification: a run ends in exactly one of three
\* outcomes: the unmatched-close error iff some prefix of the tokens holds
\* more ']' than '['; the unmatched-open error iff no prefix does and the
\* tokens hold more '[' than ']'; success otherwise.  With both faults
\* present the unmatched-close error is the one reported.
Outcome ==
    /\ pc # "exit" => (exitCode = -1 /\ stderr = <<>>)
    /\ pc = "exit" =>
          LET closeErr == \E k \in 0..Len(source) : stderr = <<CloseError(k)>>
              openErr  == stderr = <<OpenError>>
              success  == exitCode = 0 /\ stderr = <<>>
          IN  /\ closeErr \/ openErr \/ success
              /\ closeErr => exitCode = EXIT_FAILURE
              /\ openErr => exitCode = EXIT_FAILURE
              /\ closeErr <=> ClosesTooMany(TokenKinds)
              /\ openErr <=> (~ClosesTooMany(TokenKinds) /\ MoreOpens(TokenKinds))
              /\ success <=> Balanced(TokenKinds)

\* Every run ends, and in the outcome its tokens decide.
OutcomeClassification == []Outcome /\ <>(pc = "exit")

\* Witness of C10: tokens with an unmatched ']' and, after it, an unclosed
\* '[' ended in the unmatched-close error.
OutcomeWitness ==
    /\ pc = "exit"
    /\ ClosesTooMany(TokenKinds)
    /\ MoreOpens(TokenKinds)
    /\ stderr = <<CloseError(tokens[FirstUnmatchedClose(TokenKinds)].pos)>>

\* What the emitter is to print for a token sequence, read off the tokens:
\* one construct per maximal run of a primitive, carrying the run's
\* length, and one while block per bracket pair.
RECURSIVE RunLength(_, _)
RunLength(kinds, t) ==
    IF kinds # <<>> /\ Head(kinds) = t THEN 1 + RunLength(Tail(kinds), t) ELSE 0

Construct(t, n, level) ==
    CASE t = TOKEN_PLUS     -> <<Line(level, "*ptr += %d;", <<n>>)>>
      [] t = TOKEN_MINUS    -> <<Line(level, "*ptr -= %d;", <<n>>)>>
      [] t = TOKEN_NEXT     -> <<Line(level, "ptr += %d;", <<n>>)>>
      [] t = TOKEN_PREVIOUS -> <<Line(level, "ptr -= %d;", <<n>>)>>
      [] t \in {TOKEN_OUTPUT, TOKEN_INPUT} ->
            LET stmt == IF t = TOKEN_OUTPUT THEN "putchar(*ptr);" ELSE "*ptr = getchar();"
            IN  IF n = 1
                THEN <<Line(level, stmt, <<>>)>>
                ELSE <<Line(level, "for (int i = 0; i < %d; i++) {", <<n>>),
                       Line(level + 1, stmt, <<>>),
                       Line(level, "}", <<>>)>>

RECURSIVE Expected(_, _)
Expected(kinds, level) ==
    IF kinds = <<>> THEN <<>>
    ELSE LET t == Head(kinds)
         IN  IF t = TOKEN_LOOP_START
             THEN <<Line(level, "while (*ptr) {", <<>>)>> \o Expected(Tail(kinds), level + 1)
             ELSE IF t = TOKEN_LOOP_END
             THEN <<Line(level - 1, "}", <<>>)>> \o Expected(Tail(kinds), level - 1)
             ELSE LET n == RunLength(kinds, t)
                  IN  Construct(t, n, level)
                      \o Expected(SubSeq(kinds, n + 1, Len(kinds)), level)

\* C7. Run-length emission: for every maximal run of N identical
\* primitive tokens the emitted body holds exactly one construct carrying
\* the literal N: one `*ptr += N` / `*ptr -= N`, one `ptr += N` /
\* `ptr -= N`, and for writes and reads one direct statement when N = 1
\* and one counted loop of N iterations around one statement when N > 1;
\* never N separate statements.
RunLengthEmission ==
    (pc = "exit" /\ exitCode = 0) => Body = Expected(TokenKinds, 1)

\* Witness of C7: a run of three writes inside a loop was emitted as one
\* counted loop, next to a single direct statement.
RunLengthEmissionWitness ==
    /\ pc = "exit" /\ exitCode = 0
    /\ \E k \in 1..Len(Body) :
          /\ Body[k] = Line(2, "for (int i = 0; i < %d; i++) {", <<3>>)
          /\ Cardinality({j \in 1..Len(Body) : Body[j].fmt = "putchar(*ptr);"}) = 1
    /\ \E k \in 1..Len(Body) : Body[k].fmt = "*ptr += %d;" /\ Body[k].args = <<1>>

IsPrefix(a, b) == Len(a) <= Len(b) /\ SubSeq(b, 1, Len(a)) = a

\* C8. Semantic equivalence: on the same input stream, the emitted
\* program and the instruction-by-instruction interpretation of the tokens
\* write the same values (at any time one output is a prefix of the
\* other), the cursor of one leaves the tape only if the cursor of the
\* other does, and when both have ended with the cursor inside the tape
\* they leave the same output, tape, cursor and number of values read; if
\* one of them ends, so does the other.
SameResults ==
    /\ cm.st # "out" => (IsPrefix(cm.out, ref.out) \/ IsPrefix(ref.out, cm.out))
    /\ (cm.st \in {"done", "stop", "out"} /\ ref.st \in {"done", "stop", "out"}) =>
          /\ cm.st = ref.st
          /\ cm.st # "out" =>
                /\ cm.out = ref.out
                /\ cm.nin = ref.nin
                /\ cm.tape = ref.tape
                /\ cm.cur = ref.cur

TranslationEquivalent ==
    /\ []SameResults
    /\ (cm.st = "done") ~> (ref.st = "done")
    /\ (ref.st = "done") ~> (cm.st = "done")

\* Witness of C8: "++[>+++<-]>." has multiplied 2 by 3 in its loop and
\* written 6, in both executions.
TranslationWitness ==
    /\ source = <<43, 43, 91, 62, 43, 43, 43, 60, 45, 93, 62, 46>>
    /\ cm.st = "done" /\ ref.st = "done"
    /\ cm.out = <<6>>
    /\ ref.out = <<6>>
    /\ cm.cur = 1
====
